---- MODULE Spec2Model ----
(***************************************************************************)
(* A model of the smartcrop analyzer (third-light/smartcrop): the entry    *)
(* points FindBestCrop and FindAllCrops, the preprocessing, the three      *)
(* feature extractors, the face locator, the candidate generator, the      *)
(* scorer and the selector.                                                *)
(*                                                                         *)
(* Numbers.  The Go code computes in float64; TLC has 32-bit integers.     *)
(*  - Config values are kept in hundredths (DetailWeight 0.2 is 20,        *)
(*    EdgeWeight -20.0 is -2000); ScoreDownSample, Step and PrescaleMin    *)
(*    are whole numbers.                                                   *)
(*  - scale, prescalefactor and realMinScale are exact rationals <<n, d>>  *)
(*    with d > 0; +Inf (a division by a zero target) is <<1, 0>>.          *)
(*  - importance and Score.Total are fixed-point numbers in units of 1/U;  *)
(*    the accumulators Detail, Skin and Saturation are in units of         *)
(*    1/(255*U); Score.Face is the exact rational [num, den].              *)
(*  - chop, int() and uint8() truncate, as in the code.                    *)
(***************************************************************************)
EXTENDS Integers, Sequences, FiniteSets, TLC

U == 3 * 1000

Min2(a, b) == IF a <= b THEN a ELSE b
Max2(a, b) == IF a >= b THEN a ELSE b
Abs(a) == IF a < 0 THEN -a ELSE a

\* chop of the rational n/d (d > 0): truncation toward zero
chop(n, d) == IF n < 0 THEN -((-n) \div d) ELSE n \div d

\* bounds, followed by the uint8 conversion, of the rational n/d (d > 0)
bounds(n, d) == Min2(Max2(chop(n, d), 0), 255)

RECURSIVE SqrtIter(_, _, _)
SqrtIter(n, lo, hi) ==
  IF lo >= hi THEN lo
  ELSE LET mid == (lo + hi + 1) \div 2
       IN IF mid * mid <= n THEN SqrtIter(n, mid, hi) ELSE SqrtIter(n, lo, mid - 1)

\* math.Sqrt on a fixed-point square: the largest r with r*r <= n
Sqrt(n) == SqrtIter(n, 0, 46340)

RECURSIVE SeqSum(_)
SeqSum(s) == IF s = << >> THEN 0 ELSE Head(s) + SeqSum(Tail(s))

\* rationals <<n, d>>, d >= 0 (d = 0 is +Inf)
RLeq(a, b) == a[1] * b[2] <= b[1] * a[2]
RMin(a, b) == IF RLeq(a, b) THEN a ELSE b
RMax(a, b) == IF RLeq(a, b) THEN b ELSE a

(***************************************************************************)
(* Config and its presets                                                  *)
(***************************************************************************)
DefaultConfig ==
  [ DetailWeight |-> 20,
    SkinBias |-> 1, SkinBrightnessMin |-> 20, SkinBrightnessMax |-> 100,
    SkinThreshold |-> 80, SkinWeight |-> 180,
    SaturationBrightnessMin |-> 5, SaturationBrightnessMax |-> 90,
    SaturationThreshold |-> 40, SaturationBias |-> 20, SaturationWeight |-> 30,
    ScoreDownSample |-> 8, Step |-> 8,
    ScaleStep |-> 10, MinScale |-> 90, MaxScale |-> 100,
    EdgeRadius |-> 40, EdgeWeight |-> -2000, OutsideImportance |-> -50,
    RuleOfThirds |-> TRUE,
    Prescale |-> TRUE, PrescaleMin |-> 400,
    FaceDetectEnabled |-> FALSE, FaceDetectClassifierFile |-> "" ]

FaceDetectConfig ==
  [ DetailWeight |-> 520,
    SkinBias |-> 1, SkinBrightnessMin |-> 20, SkinBrightnessMax |-> 100,
    SkinThreshold |-> 80, SkinWeight |-> 580,
    SaturationBrightnessMin |-> 5, SaturationBrightnessMax |-> 90,
    SaturationThreshold |-> 40, SaturationBias |-> 20, SaturationWeight |-> 550,
    ScoreDownSample |-> 2, Step |-> 8,
    ScaleStep |-> 10, MinScale |-> 100, MaxScale |-> 100,
    EdgeRadius |-> 40, EdgeWeight |-> -2000, OutsideImportance |-> -50,
    RuleOfThirds |-> TRUE,
    Prescale |-> FALSE, PrescaleMin |-> 400,
    FaceDetectEnabled |-> TRUE, FaceDetectClassifierFile |-> "" ]

(***************************************************************************)
(* Pixels, images and rectangles                                           *)
(***************************************************************************)
RGB(r, g, b) == [R |-> r, G |-> g, B |-> b]

\* an image: w columns, h rows, pix row-major
NewRGBA(w, h) == [w |-> w, h |-> h, pix |-> [k \in 1..(w * h) |-> RGB(0, 0, 0)]]
RGBAAt(i, x, y) == i.pix[y * i.w + x + 1]

Pt(x, y) == [X |-> x, Y |-> y]
\* image.Rect: a well-formed rectangle whatever the order of the corners
Rect(x0, y0, x1, y1) ==
  [Min |-> Pt(Min2(x0, x1), Min2(y0, y1)), Max |-> Pt(Max2(x0, x1), Max2(y0, y1))]
ZR == [Min |-> Pt(0, 0), Max |-> Pt(0, 0)]
Dx(r) == r.Max.X - r.Min.X
Dy(r) == r.Max.Y - r.Min.Y
Empty(r) == r.Min.X >= r.Max.X \/ r.Min.Y >= r.Max.Y
\* image.Rectangle.In
In(r, s) ==
  \/ Empty(r)
  \/ /\ s.Min.X <= r.Min.X /\ r.Max.X <= s.Max.X
     /\ s.Min.Y <= r.Min.Y /\ r.Max.Y <= s.Max.Y
\* image.Rectangle.Canon
Canon(r) ==
  [Min |-> Pt(Min2(r.Min.X, r.Max.X), Min2(r.Min.Y, r.Max.Y)),
   Max |-> Pt(Max2(r.Min.X, r.Max.X), Max2(r.Min.Y, r.Max.Y))]

ZeroScore ==
  [Detail |-> 0, Saturation |-> 0, Skin |-> 0, Face |-> [num |-> 0, den |-> 1], Total |-> 0]
\* the zero value of Crop
ZeroCrop == [Rectangle |-> ZR, Score |-> ZeroScore]

(***************************************************************************)
(* Feature extractors                                                      *)
(***************************************************************************)
\* cie, in units of 1/10000
cie(c) == 5126 * c.B + 7152 * c.G + 722 * c.R

\* saturation as the rational <<n, d>>: 0 for a gray pixel
saturation(c) ==
  LET cMax == Max2(c.R, Max2(c.G, c.B))
      cMin == Min2(c.R, Min2(c.G, c.B))
  IN IF cMax = cMin THEN <<0, 1>>
     ELSE IF cMax + cMin > 255 THEN <<cMax - cMin, 510 - cMax - cMin>>
     ELSE <<cMax - cMin, cMax + cMin>>

\* skinCol, in units of 1/10000, of a pixel that is not black
skinCol(c) ==
  LET mag == Sqrt((c.R * c.R + c.G * c.G + c.B * c.B) * 10000)
      dot == 78 * c.R + 57 * c.G + 44 * c.B
      \* rd^2 + gd^2 + bd^2 = 1 + |skinColor|^2 - 2 * (c . skinColor) / mag
      d2 == 10000 + 78 * 78 + 57 * 57 + 44 * 44 - (2 * dot * 10000) \div mag
  IN 10000 - Sqrt(d2 * 10000)

\* mag = 0 makes skinCol NaN, and every comparison with it false
IsNaN(c) == c.R = 0 /\ c.G = 0 /\ c.B = 0

\* the lightness gate of skinDetect and saturationDetect: lo <= cie/255 <= hi
InBand(c, lo, hi) == cie(c) >= lo * 255 * 100 /\ cie(c) <= hi * 255 * 100

\* edgeDetect's value of pixel (x, y)
edgeAt(i, x, y) ==
  IF x = 0 \/ x >= i.w - 1 \/ y = 0 \/ y >= i.h - 1 THEN 0
  ELSE bounds(cie(RGBAAt(i, x, y)) * 4
                - cie(RGBAAt(i, x, y - 1)) - cie(RGBAAt(i, x - 1, y))
                - cie(RGBAAt(i, x + 1, y)) - cie(RGBAAt(i, x, y + 1)), 10000)

\* edgeDetect: every pixel of o becomes {0, edge, 0, 255}
edgeDetect(sca, i, o) ==
  [o EXCEPT !.pix = [k \in 1..(i.w * i.h) |->
      RGB(0, edgeAt(i, (k - 1) % i.w, (k - 1) \div i.w), 0)]]

\* skinDetect's value of a source pixel
skinAt(sca, c) ==
  LET skin == skinCol(c)
  IN IF ~IsNaN(c) /\ skin > sca.SkinThreshold * 100
        /\ InBand(c, sca.SkinBrightnessMin, sca.SkinBrightnessMax)
     THEN bounds((skin - sca.SkinThreshold * 100) * 255, 10000 - sca.SkinThreshold * 100)
     ELSE 0

\* a variant of skinDetect that stores {skin, 0, 0, 255}, as edgeDetect stores its value
skinDetectClobber(sca, i, o) ==
  [o EXCEPT !.pix = [k \in 1..(i.w * i.h) |-> RGB(skinAt(sca, i.pix[k]), 0, 0)]]

\* skinDetect: the R channel of every pixel of o is rewritten, G and B kept
skinDetect(sca, i, o) ==
  [o EXCEPT !.pix = [k \in 1..(i.w * i.h) |->
      RGB(skinAt(sca, i.pix[k]), o.pix[k].G, o.pix[k].B)]]

\* a variant of saturationAt without the lightness gate
saturationAtUngated(sca, c) ==
  LET sat == saturation(c)
  IN IF sat[1] * 100 > sca.SaturationThreshold * sat[2]
     THEN bounds((sat[1] * 100 - sca.SaturationThreshold * sat[2]) * 255,
                 sat[2] * (100 - sca.SaturationThreshold))
     ELSE 0

\* saturationDetect's value of a source pixel
saturationAt(sca, c) ==
  LET sat == saturation(c)
  IN IF sat[1] * 100 > sca.SaturationThreshold * sat[2]
        /\ InBand(c, sca.SaturationBrightnessMin, sca.SaturationBrightnessMax)
     THEN bounds((sat[1] * 100 - sca.SaturationThreshold * sat[2]) * 255,
                 sat[2] * (100 - sca.SaturationThreshold))
     ELSE 0

\* saturationDetect: the B channel of every pixel of o is rewritten, R and G kept
saturationDetect(sca, i, o) ==
  [o EXCEPT !.pix = [k \in 1..(i.w * i.h) |->
      RGB(o.pix[k].R, o.pix[k].G, saturationAt(sca, i.pix[k]))]]

(***************************************************************************)
(* Scorer                                                                  *)
(***************************************************************************)
thirds(p) ==
  LET x == (((p - U \div 3 + U) % (2 * U)) - U) * 8
  IN Max2(U - (x * x) \div U, 0)

\* a variant of importance that gives a pixel outside the crop the magnitude of
\* OutsideImportance
importanceMagnitude(sca, crop, x, y) ==
  IF crop.Min.X > x \/ x >= crop.Max.X \/ crop.Min.Y > y \/ y >= crop.Max.Y
  THEN Abs((sca.OutsideImportance * U) \div 100)
  ELSE LET px == (Abs(Dx(crop) - 2 * (x - crop.Min.X)) * U) \div Dx(crop)
           py == (Abs(Dy(crop) - 2 * (y - crop.Min.Y)) * U) \div Dy(crop)
           dx == Max2(px - U + (sca.EdgeRadius * U) \div 100, 0)
           dy == Max2(py - U + (sca.EdgeRadius * U) \div 100, 0)
           d == (((dx * dx + dy * dy) \div 100) * sca.EdgeWeight) \div U
           s0 == (141 * U) \div 100 - Sqrt(px * px + py * py)
           s == IF sca.RuleOfThirds
                THEN s0 + (Max2(0, s0 + d + U \div 2) * 12 * (thirds(px) + thirds(py))) \div (10 * U)
                ELSE s0
       IN s + d

\* importance of pixel (x, y) for crop, in units of 1/U
importance(sca, crop, x, y) ==
  IF crop.Min.X > x \/ x >= crop.Max.X \/ crop.Min.Y > y \/ y >= crop.Max.Y
  THEN (sca.OutsideImportance * U) \div 100
  ELSE LET px == (Abs(Dx(crop) - 2 * (x - crop.Min.X)) * U) \div Dx(crop)
           py == (Abs(Dy(crop) - 2 * (y - crop.Min.Y)) * U) \div Dy(crop)
           dx == Max2(px - U + (sca.EdgeRadius * U) \div 100, 0)
           dy == Max2(py - U + (sca.EdgeRadius * U) \div 100, 0)
           d == (((dx * dx + dy * dy) \div 100) * sca.EdgeWeight) \div U
           s0 == (141 * U) \div 100 - Sqrt(px * px + py * py)
           s == IF sca.RuleOfThirds
                THEN s0 + (Max2(0, s0 + d + U \div 2) * 12 * (thirds(px) + thirds(py))) \div (10 * U)
                ELSE s0
       IN s + d

\* the coordinates the scorer samples along an axis of length n
Samples(sca, n) ==
  IF n < sca.ScoreDownSample THEN << >>
  ELSE [k \in 1..((n - sca.ScoreDownSample) \div sca.ScoreDownSample + 1) |->
          (k - 1) * sca.ScoreDownSample]

\* the sampled pixels, row by row
SamplePoints(sca, output) ==
  LET xs == Samples(sca, output.w)
      ys == Samples(sca, output.h)
  IN [k \in 1..(Len(xs) * Len(ys)) |->
        Pt(xs[((k - 1) % Len(xs)) + 1], ys[((k - 1) \div Len(xs)) + 1])]

\* a variant of faceScore that counts every box that intersects the crop
faceScoreOverlap(sca, crop, faceRects) ==
  IF sca.FaceDetectEnabled
  THEN [num |-> SeqSum([k \in 1..Len(faceRects) |->
                   IF /\ faceRects[k].Min.X < crop.Max.X /\ crop.Min.X < faceRects[k].Max.X
                      /\ faceRects[k].Min.Y < crop.Max.Y /\ crop.Min.Y < faceRects[k].Max.Y
                   THEN Dx(faceRects[k]) * Dy(faceRects[k]) ELSE 0]),
        den |-> Max2(Dx(crop) * Dy(crop), 1)]
  ELSE [num |-> 0, den |-> 1]

\* Score.Face: the face boxes inside the crop, over the crop's area.  A crop without
\* pixels contains no kept box, and its Face stays 0: den is then 1
faceScore(sca, crop, faceRects) ==
  IF sca.FaceDetectEnabled
  THEN [num |-> SeqSum([k \in 1..Len(faceRects) |->
                   IF In(faceRects[k], crop) THEN Dx(faceRects[k]) * Dy(faceRects[k]) ELSE 0]),
        den |-> Max2(Dx(crop) * Dy(crop), 1)]
  ELSE [num |-> 0, den |-> 1]

\* float64 values that are not numbers of the model: x/0 is +Inf or -Inf by the sign of
\* x, 0/0 is NaN; every comparison with NaN is false
PosInf == 2 ^ 30
NegInf == -(2 ^ 30)
NaN == 2 ^ 30 + 1
Gt(a, b) == a # NaN /\ b # NaN /\ a > b

\* a variant of total that adds Face to the weighted sum before the division by the area
totalFaceFirst(sca, crop, detail, skin, sat, face) ==
  LET weighted == (detail \div 255) * sca.DetailWeight + (skin \div 255) * sca.SkinWeight
                    + (sat \div 255) * sca.SaturationWeight
      area == Dx(crop) * Dy(crop)
  IN IF area = 0
     THEN IF weighted < 0 THEN NegInf ELSE IF weighted = 0 THEN NaN ELSE PosInf
     ELSE (weighted + (100 * U * face.num) \div face.den) \div (100 * area)

\* Score.Total from the accumulators, in units of 1/U
total(sca, crop, detail, skin, sat, face) ==
  LET weighted == (detail \div 255) * sca.DetailWeight + (skin \div 255) * sca.SkinWeight
                    + (sat \div 255) * sca.SaturationWeight
      area == Dx(crop) * Dy(crop)
  IN IF area = 0
     THEN IF weighted < 0 THEN NegInf ELSE IF weighted = 0 THEN NaN ELSE PosInf
     ELSE weighted \div (100 * area) + (U * face.num) \div face.den

score(sca, output, crop, faceRects) ==
  LET pts == SamplePoints(sca, output)
      imp == [k \in 1..Len(pts) |-> importance(sca, crop, pts[k].X, pts[k].Y)]
      c == [k \in 1..Len(pts) |-> RGBAAt(output, pts[k].X, pts[k].Y)]
      detail == SeqSum([k \in 1..Len(pts) |-> c[k].G * imp[k]])
      skin == SeqSum([k \in 1..Len(pts) |->
                ((((c[k].R * (100 * c[k].G + 255 * sca.SkinBias)) \div 255) * imp[k]) \div 100)])
      sat == SeqSum([k \in 1..Len(pts) |->
                ((((c[k].B * (100 * c[k].G + 255 * sca.SaturationBias)) \div 255) * imp[k]) \div 100)])
      face == faceScore(sca, crop, faceRects)
  IN [Detail |-> detail, Saturation |-> sat, Skin |-> skin, Face |-> face,
      Total |-> total(sca, crop, detail, skin, sat, face)]

(***************************************************************************)
(* Preprocessor, candidate generator, selector, face locator               *)
(***************************************************************************)
\* options.Resizer.Resize(img, width, 0): the height keeps the aspect ratio, rounded
\* down or up as the injected resizer rounds; pixels by nearest neighbour
Resize(rs, i, width) ==
  LET h == IF rs = "ceil" THEN (i.h * width + i.w - 1) \div i.w ELSE (i.h * width) \div i.w
  IN [w |-> width, h |-> h,
      pix |-> [k \in 1..(width * h) |->
                 RGBAAt(i, (((k - 1) % width) * i.w) \div width,
                           (((k - 1) \div width) * i.h) \div h)]]

\* scale = min(Dx/width, Dy/height), a division by 0 giving +Inf
scaleOf(i, w, h) == RMin(<<i.w, w>>, <<i.h, h>>)

\* prescalefactor: PrescaleMin / min(Dx, Dy) when that is below 1, else 1
prescaleOf(sca, i) ==
  IF sca.Prescale /\ sca.PrescaleMin < Min2(i.w, i.h)
  THEN <<sca.PrescaleMin, Min2(i.w, i.h)>>
  ELSE <<1, 1>>

preprocessForAnalysis(sca, rs, i, w, h) ==
  LET scale == scaleOf(i, w, h)
      pf == prescaleOf(sca, i)
  IN [rgbaImg |-> IF sca.Prescale THEN Resize(rs, i, chop(i.w * pf[1], pf[2])) ELSE i,
      cropWidth |-> chop(w * scale[1] * pf[1], scale[2] * pf[2]),
      cropHeight |-> chop(h * scale[1] * pf[1], scale[2] * pf[2]),
      realMinScale |-> RMin(<<sca.MaxScale, 100>>,
                            RMax(<<scale[2], scale[1]>>, <<sca.MinScale, 100>>)),
      prescalefactor |-> pf]

\* the scales of the outer loop of crops, in hundredths
RECURSIVE Scales(_, _, _)
Scales(sca, scale, realMinScale) ==
  IF RLeq(realMinScale, <<scale, 100>>)
  THEN <<scale>> \o Scales(sca, scale - sca.ScaleStep, realMinScale)
  ELSE << >>

\* the positions 0, Step, 2*Step, ... at which a crop of len100/100 pixels fits in limit
Positions(sca, len100, limit) ==
  IF len100 > 100 * limit THEN << >>
  ELSE [k \in 1..((100 * limit - len100) \div (100 * sca.Step) + 1) |-> (k - 1) * sca.Step]

RECURSIVE Flatten(_)
Flatten(ss) == IF ss = << >> THEN << >> ELSE Head(ss) \o Flatten(Tail(ss))

\* the crops of one scale: rows of y, within a row by x
cropsAt(sca, width, height, cropW, cropH, scale) ==
  LET ys == Positions(sca, cropH * scale, height)
      xs == Positions(sca, cropW * scale, width)
  IN Flatten([a \in 1..Len(ys) |-> [b \in 1..Len(xs) |->
        [Rectangle |-> Rect(xs[b], ys[a], xs[b] + chop(cropW * scale, 100),
                            ys[a] + chop(cropH * scale, 100)),
         Score |-> ZeroScore]]])

crops(sca, i, cropWidth, cropHeight, realMinScale) ==
  LET minDimension == Min2(i.w, i.h)
      cropW == IF cropWidth # 0 THEN cropWidth ELSE minDimension
      cropH == IF cropHeight # 0 THEN cropHeight ELSE minDimension
      scales == Scales(sca, sca.MaxScale, realMinScale)
  IN Flatten([k \in 1..Len(scales) |->
                cropsAt(sca, i.w, i.h, cropW, cropH, scales[k])])

\* a variant of findTopCrop in which a later candidate with an equal Total wins
RECURSIVE TopFromLast(_, _, _, _)
TopFromLast(cs, k, topCrop, topScore) ==
  IF k > Len(cs) THEN topCrop
  ELSE IF cs[k].Score.Total # NaN /\ cs[k].Score.Total >= topScore
       THEN TopFromLast(cs, k + 1, cs[k], cs[k].Score.Total)
       ELSE TopFromLast(cs, k + 1, topCrop, topScore)

findTopCropLast(cs) == TopFromLast(cs, 1, ZeroCrop, -U)

RECURSIVE TopFrom(_, _, _, _)
TopFrom(cs, k, topCrop, topScore) ==
  IF k > Len(cs) THEN topCrop
  ELSE IF Gt(cs[k].Score.Total, topScore)
       THEN TopFrom(cs, k + 1, cs[k], cs[k].Score.Total)
       ELSE TopFrom(cs, k + 1, topCrop, topScore)

findTopCrop(cs) == TopFrom(cs, 1, ZeroCrop, -U)

\* the division of a rectangle's four coordinates by prescalefactor, chopped
rescale(sca, r, pf) ==
  IF sca.Prescale
  THEN [Min |-> Pt(chop(r.Min.X * pf[2], pf[1]), chop(r.Min.Y * pf[2], pf[1])),
        Max |-> Pt(chop(r.Max.X * pf[2], pf[1]), chop(r.Max.Y * pf[2], pf[1]))]
  ELSE r

\* a variant of faceDetect that keeps a box of exactly 5% of the image
faceDetectAtLeast(sca, i, d) ==
  IF d.err THEN << >>
  ELSE SelectSeq(d.rects, LAMBDA r : 20 * (Dx(r) * Dy(r)) >= i.w * i.h)

\* the rectangles the detector found that cover more than 5% of the image
faceDetect(sca, i, d) ==
  IF d.err THEN << >>
  ELSE SelectSeq(d.rects, LAMBDA r : 20 * (Dx(r) * Dy(r)) > i.w * i.h)

\* classifier.Load
Load(file) == file # ""

\* the face boxes analyse hands to the scorer
analyseFaceRects(sca, i, d) ==
  IF sca.FaceDetectEnabled THEN faceDetect(sca, i, d) ELSE << >>

(***************************************************************************)
(* Debug drawing                                                           *)
(***************************************************************************)
\* drawRect: the two horizontal and the two vertical lines of r, their ends included;
\* Set leaves a point outside the image alone
drawRect(i, col, r) ==
  [i EXCEPT !.pix = [k \in 1..(i.w * i.h) |->
      LET x == (k - 1) % i.w
          y == (k - 1) \div i.w
      IN IF \/ (y = r.Min.Y \/ y = r.Max.Y) /\ r.Min.X <= x /\ x <= r.Max.X
            \/ (x = r.Min.X \/ x = r.Max.X) /\ r.Min.Y <= y /\ y <= r.Max.Y
         THEN col ELSE i.pix[k]]]

RECURSIVE drawRects(_, _, _)
drawRects(i, col, rs) ==
  IF rs = << >> THEN i ELSE drawRects(drawRect(i, col, Head(rs)), col, Tail(rs))

\* what faceDetect leaves in its output image out, a copy of the picture: the kept face
\* boxes in red, or nothing when the conversion of the picture failed
faceDetectOut(sca, i, d, out) ==
  IF d.err THEN out ELSE drawRects(out, RGB(255, 0, 0), faceDetect(sca, i, d))

\* drawDebugCrop: every pixel of o gets more green where its importance for the crop is
\* positive and more red where it is negative
drawDebugCrop(sca, crop, o) ==
  [o EXCEPT !.pix = [k \in 1..(o.w * o.h) |->
      LET imp == importance(sca, crop, (k - 1) % o.w, (k - 1) \div o.w)
      IN RGB(IF imp < 0 THEN bounds(o.pix[k].R * U - imp * 64, U) ELSE o.pix[k].R,
             IF imp > 0 THEN bounds(o.pix[k].G * U + imp * 32, U) ELSE o.pix[k].G,
             o.pix[k].B)]]

(***************************************************************************)
(* The analyzer as a state machine: one call at a time, a step per stage   *)
(***************************************************************************)
VARIABLES
  cfg,            \* sca.config
  resizer,        \* how the injected Resizer rounds the height it derives
  pc,             \* the position of the current call, "idle" between calls
  op,             \* the entry point of the current call
  img, det,       \* the caller's image, and what the face detector answers on it
  width, height,  \* the target size
  rgbaImg, cropWidth, cropHeight, realMinScale, prescalefactor,
  o,              \* analyse's feature buffer
  faceRects,      \* analyse's faceRects
  cs, n,          \* the candidates and the index of the next one to score
  topCrop,
  result,         \* what the call returned
  steps,          \* the stages the current call has run, in order
  ref,            \* the first call that returned, with its result
  gen,            \* the loop variables of crops while it runs step by step
  debug,          \* sca.logger.DebugMode
  isRGBA,         \* the caller's image is an *image.RGBA
  source,         \* the pixel buffer of the caller's image, as it is now
  faceOut         \* analyse's faceOut, NoImage for nil

vars == <<cfg, resizer, pc, op, img, det, width, height, rgbaImg, cropWidth, cropHeight,
          realMinScale, prescalefactor, o, faceRects, cs, n, topCrop, result, steps, ref,
          gen, debug, isRGBA, source, faceOut>>

locals == <<rgbaImg, cropWidth, cropHeight, realMinScale, prescalefactor, o, cs, n, topCrop>>

(***************************************************************************)
(* Values before and between calls, and the pictures                       *)
(***************************************************************************)
NoImage == [w |-> 0, h |-> 0, pix |-> << >>]
NoDet == [err |-> FALSE, rects |-> << >>]
NoResult == [rect |-> ZR, crops |-> << >>, faces |-> << >>, err |-> "none"]
NoRef == [op |-> "none"]
\* crops is not running
NoGen == [at |-> "off", scale |-> 0, y |-> 0, x |-> 0]

\* analyse's faceOut once the face locator has returned: in debug mode a copy of the
\* picture for faceDetect to draw on, nil otherwise
analyseFaceOut(sca, dbg, i, d) ==
  IF sca.FaceDetectEnabled /\ dbg THEN faceDetectOut(sca, i, d, i) ELSE NoImage

\* the analysed picture is the caller's pixel buffer itself: toRGBA returns the image it
\* is given when that is an *image.RGBA, and it is given the caller's image, or what the
\* Resizer made of it, which may be that image when the size stays the same
Aliased ==
  /\ isRGBA /\ rgbaImg # NoImage
  /\ ~cfg.Prescale \/ (rgbaImg.w = source.w /\ rgbaImg.h = source.h)

Black == RGB(0, 0, 0)
Gray == RGB(128, 128, 128)
White == RGB(255, 255, 255)
Green == RGB(0, 255, 0)
Skin == RGB(199, 145, 112)

\* a w x h picture: background bg, and the pixels of rectangle sq in colour fg
Picture(w, h, bg, fg, sq) ==
  [w |-> w, h |-> h,
   pix |-> [k \in 1..(w * h) |->
              IF /\ sq.Min.X <= (k - 1) % w /\ (k - 1) % w < sq.Max.X
                 /\ sq.Min.Y <= (k - 1) \div w /\ (k - 1) \div w < sq.Max.Y
              THEN fg ELSE bg]]

(***************************************************************************)
(* The calls explored                                                      *)
(***************************************************************************)
MaxDim == 5
MaxTarget == 5
MaxSquare == 1
\* the candidates a call of crops may emit before the model stops following it
MaxCandidates == 40

Sides == 4..MaxDim
Targets == {t \in (0..MaxTarget) \X (0..MaxTarget) : TRUE}

\* Config values scaled to pictures of a few pixels: every pixel is sampled and every
\* position tried; PlainConfig analyses the picture as it is, SmallConfig prescales it
PlainConfig ==
  [DefaultConfig EXCEPT !.ScoreDownSample = 1, !.Step = 1, !.ScaleStep = 25,
                        !.MinScale = 75, !.Prescale = FALSE]
SmallConfig ==
  [DefaultConfig EXCEPT !.ScoreDownSample = 1, !.Step = 1, !.ScaleStep = 25,
                        !.MinScale = 50, !.PrescaleMin = 2]
SmallFaceConfig ==
  [FaceDetectConfig EXCEPT !.ScoreDownSample = 1, !.Step = 1,
                           !.FaceDetectClassifierFile = "haarcascade.xml"]
LoadedFaceConfig == [FaceDetectConfig EXCEPT !.FaceDetectClassifierFile = "haarcascade.xml"]
\* face detection on a prescaled picture
PrescaleFaceConfig == [SmallFaceConfig EXCEPT !.Prescale = TRUE, !.PrescaleMin = 3]
\* a Config whose position step was left at the zero value of int
ZeroStepConfig == [PlainConfig EXCEPT !.Step = 0]

Configs ==
  {DefaultConfig, FaceDetectConfig, LoadedFaceConfig, PlainConfig, SmallConfig, SmallFaceConfig}

GrayPictures == {Picture(w, h, Gray, Gray, ZR) : w \in Sides, h \in Sides}
\* a green square on black: on the diagonal, or in the two other corners
SquaresIn(w, h, s) ==
  {Rect(k, k, k + s, k + s) : k \in 0..(Min2(w, h) - s)}
    \cup {Rect(0, h - s, s, h), Rect(w - s, 0, w, s), Rect(w - s, h - s, w, h)}
SquarePictures ==
  UNION {UNION {{Picture(w, h, Black, Green, sq) : sq \in SquaresIn(w, h, s)} :
                  s \in 1..MaxSquare} : w \in Sides, h \in Sides}
\* colours on either side of the thresholds and of the lightness bands of the extractors
DarkSkin == RGB(39, 28, 22)
PaleSkin == RGB(255, 200, 200)
DarkRed == RGB(10, 0, 0)
PaleYellow == RGB(255, 255, 200)
Palette == {Black, Gray, White, Green, Skin, DarkSkin, PaleSkin, DarkRed, PaleYellow}
\* a pixel of one colour of the palette on a background of another
PalettePictures ==
  {Picture(MaxDim, MaxDim, bg, fg, Rect(1, 1, 2, 2)) : bg \in Palette, fg \in Palette}
\* a pixel of skin colour on black
SkinPictures == {Picture(MaxDim, MaxDim, Black, Skin, Rect(2, 2, 3, 3))}
Pictures == GrayPictures \cup SquarePictures \cup SkinPictures

\* what the detector may answer on a picture
Detections ==
  {[err |-> FALSE, rects |-> rs] :
      rs \in {<< >>, <<Rect(0, 0, 2, 5)>>, <<Rect(1, 1, 3, 3), Rect(2, 2, 3, 3)>>,
              <<Rect(3, 0, 4, 1), Rect(0, 0, 2, 4)>>}}
  \cup {[err |-> TRUE, rects |-> << >>]}

\* a call; rgba tells whether the image handed in is an *image.RGBA
CallOn(i, d, t, b) == [img |-> i, det |-> d, w |-> t[1], h |-> t[2], rgba |-> b]
Call(i, d, t) == CallOn(i, d, t, TRUE)

\* the calls made on an analyzer with config c; the detector is consulted only with
\* face detection enabled
Calls(c) ==
  IF c = SmallFaceConfig
    THEN {Call(Picture(w, 5, Gray, Gray, ZR), d, t) : w \in Sides, d \in Detections, t \in Targets}
  ELSE IF c = LoadedFaceConfig
    THEN {Call(Picture(5, 5, Black, Green, Rect(2, 2, 3, 3)), d, t) :
            d \in {NoDet, [err |-> TRUE, rects |-> << >>]}, t \in Targets}
  ELSE IF c = FaceDetectConfig
    THEN {Call(Picture(4, 4, Gray, Gray, ZR), d, t) :
            d \in {NoDet, [err |-> TRUE, rects |-> << >>]}, t \in Targets}
  ELSE {Call(i, NoDet, t) : i \in Pictures, t \in Targets}

\* the calls that exercise the candidate generator, which reads the size of the picture
\* and not its content
GeneratorCalls(c) ==
  IF c.FaceDetectEnabled
    THEN {Call(Picture(4, 4, Gray, Gray, ZR), NoDet, t) : t \in Targets}
  ELSE {Call(i, NoDet, t) : i \in GrayPictures, t \in Targets}

\* the calls that show what becomes of the caller's pixel buffer: images that are an
\* *image.RGBA and images that are not, with and without faces
BufferTargets == {t \in Targets : t[1] \in {0, 2, MaxTarget} /\ t[2] \in {0, 1, MaxTarget}}
BufferCalls(c) ==
  IF c.FaceDetectEnabled
    THEN {CallOn(Picture(w, 5, Gray, Gray, ZR), d, t, b) :
            w \in Sides, d \in Detections, t \in BufferTargets, b \in BOOLEAN}
  ELSE {CallOn(Picture(w, h, Black, Green, Rect(1, 1, 2, 2)), NoDet, t, b) :
          w \in Sides, h \in Sides, t \in BufferTargets, b \in BOOLEAN}

\* the calls whose candidates get a Total from features and faces: pictures of skin
\* colour, plain or with a green pixel, with a face box or two
ScoreTargets == {t \in Targets : t[1] \in {0, 1, 2, MaxTarget} /\ t[2] \in {1, 3, MaxTarget}}
ScoreCalls(c) ==
  {Call(Picture(w, MaxDim, Skin, fg, Rect(1, 1, 2, 2)), d, t) :
     w \in Sides, fg \in {Skin, Green}, t \in ScoreTargets,
     d \in {[err |-> FALSE, rects |-> rs] :
              rs \in {<< >>, <<Rect(0, 0, 1, 2)>>, <<Rect(1, 1, 3, 3), Rect(0, 1, 1, 3)>>}}}

\* the calls that put the colours of the palette before the extractors
ExtractorCalls(c) ==
  {Call(i, NoDet, t) : i \in PalettePictures, t \in {<<0, MaxTarget>>, <<MaxTarget - 1, 2>>}}

\* the calls made one after the other on an analyzer with config c
RepeatConfigs == {FaceDetectConfig, LoadedFaceConfig, PlainConfig, SmallFaceConfig}
RepeatTargets == {t \in Targets : t[1] \in {0, 1, MaxTarget - 1} /\ t[2] \in {0, MaxTarget}}
RepeatCalls(c) ==
  IF c = SmallFaceConfig
    THEN {Call(Picture(5, 5, Gray, Gray, ZR), NoDet, t) : t \in RepeatTargets}
           \cup {Call(Picture(5, 5, Black, Black, ZR),
                      [err |-> FALSE, rects |-> <<Rect(3, 1, 5, 3)>>], t) : t \in RepeatTargets}
  ELSE IF c = LoadedFaceConfig
    THEN {Call(Picture(5, 5, Black, Green, Rect(2, 2, 3, 3)), NoDet, t) : t \in RepeatTargets}
  ELSE IF c = FaceDetectConfig
    THEN {Call(Picture(4, 4, Gray, Gray, ZR), NoDet, t) : t \in RepeatTargets}
  ELSE {Call(Picture(w, 5, Black, Green, Rect(w - 1, 3, w, 4)), NoDet, t) :
          w \in Sides, t \in RepeatTargets}

(***************************************************************************)
(* Init and the actions                                                    *)
(***************************************************************************)
\* an analyzer with a config of configs and a logger whose DebugMode is one of modes
InitLogger(configs, modes) ==
  /\ cfg \in configs
  /\ debug \in modes
  /\ resizer \in IF cfg.Prescale /\ cfg.PrescaleMin < MaxDim THEN {"floor", "ceil"} ELSE {"floor"}
  /\ pc = "idle" /\ op = "none"
  /\ img = NoImage /\ det = NoDet /\ width = 0 /\ height = 0
  /\ rgbaImg = NoImage /\ cropWidth = 0 /\ cropHeight = 0
  /\ realMinScale = <<0, 1>> /\ prescalefactor = <<1, 1>>
  /\ o = NoImage /\ faceRects = << >> /\ cs = << >> /\ n = 0
  /\ topCrop = ZeroCrop /\ result = NoResult /\ steps = << >> /\ ref = NoRef
  /\ gen = NoGen
  /\ isRGBA = FALSE /\ source = NoImage /\ faceOut = NoImage

\* NewAnalyzer: DebugMode is false
InitWith(configs) == InitLogger(configs, {FALSE})

\* a variant of Enter that refuses a target as soon as one dimension is zero
EnterEitherZero(name, c) ==
  /\ pc = "idle"
  /\ op' = name /\ img' = c.img /\ det' = c.det /\ width' = c.w /\ height' = c.h
  /\ isRGBA' = c.rgba /\ source' = c.img
  /\ steps' = << >>
  /\ IF c.w = 0 \/ c.h = 0
     THEN /\ pc' = "done"
          /\ result' = [NoResult EXCEPT !.err = "ErrInvalidDimensions"]
     ELSE /\ pc' = "preprocess"
          /\ result' = NoResult
  /\ UNCHANGED <<cfg, resizer, debug, faceOut, gen, locals, faceRects, ref>>

\* the entry of a call: the both-zero target is refused before anything runs
Enter(name, c) ==
  /\ pc = "idle"
  /\ op' = name /\ img' = c.img /\ det' = c.det /\ width' = c.w /\ height' = c.h
  /\ isRGBA' = c.rgba /\ source' = c.img
  /\ steps' = << >>
  /\ IF c.w = 0 /\ c.h = 0
     THEN /\ pc' = "done"
          /\ result' = [NoResult EXCEPT !.err = "ErrInvalidDimensions"]
     ELSE /\ pc' = "preprocess"
          /\ result' = NoResult
  /\ UNCHANGED <<cfg, resizer, debug, faceOut, gen, locals, faceRects, ref>>

FindBestCrop(c) == Enter("FindBestCrop", c)

FindAllCrops(c) == Enter("FindAllCrops", c)

Preprocess ==
  /\ pc = "preprocess"
  /\ LET p == preprocessForAnalysis(cfg, resizer, img, width, height)
     IN /\ rgbaImg' = p.rgbaImg
        /\ cropWidth' = p.cropWidth /\ cropHeight' = p.cropHeight
        /\ realMinScale' = p.realMinScale /\ prescalefactor' = p.prescalefactor
  /\ steps' = IF cfg.Prescale THEN <<"resize">> ELSE << >>
  /\ pc' = "edge"
  /\ UNCHANGED <<cfg, resizer, debug, isRGBA, source, faceOut>>
  /\ UNCHANGED <<gen, op, img, det, width, height, o, faceRects, cs, n, topCrop,
                 result, ref>>

Stage(from, to, name, buffer) ==
  /\ pc = from
  /\ o' = buffer
  /\ steps' = Append(steps, name)
  /\ pc' = to
  /\ UNCHANGED <<cfg, resizer, debug, isRGBA, source, faceOut>>
  /\ UNCHANGED <<gen, op, img, det, width, height, rgbaImg, cropWidth, cropHeight,
                 realMinScale, prescalefactor, faceRects, cs, n, topCrop, result, ref>>

EdgeDetect == Stage("edge", "skin", "edge", edgeDetect(cfg, rgbaImg, NewRGBA(rgbaImg.w, rgbaImg.h)))

SkinDetect == Stage("skin", "saturation", "skin", skinDetect(cfg, rgbaImg, o))

SaturationDetect == Stage("saturation", "face", "saturation", saturationDetect(cfg, rgbaImg, o))

\* a variant of Panics in which a failed conversion of the image is fatal as well
PanicsAnyFailure(sca, d) ==
  sca.FaceDetectEnabled /\ (d.err \/ ~Load(sca.FaceDetectClassifierFile))

\* stage name has run in the current call
Ran(name) == \E j \in 1..Len(steps) : steps[j] = name

\* analyse's o := image.NewRGBA(img.Bounds()), with the extractors still to run
NewBuffer ==
  /\ pc = "edge"
  /\ o' = NewRGBA(rgbaImg.w, rgbaImg.h)
  /\ pc' = "extract"
  /\ UNCHANGED <<cfg, resizer, debug, isRGBA, source, faceOut>>
  /\ UNCHANGED <<gen, op, img, det, width, height, rgbaImg, cropWidth,
                 cropHeight, realMinScale, prescalefactor, faceRects, cs, n, topCrop, result,
                 steps, ref>>

\* an extractor that has not run yet runs on the buffer as the others left it; the
\* face locator follows the last of the three
Extract(name, buffer) ==
  /\ pc = "extract" /\ ~Ran(name)
  /\ o' = buffer
  /\ steps' = Append(steps, name)
  /\ pc' = IF \A e \in {"edge", "skin", "saturation"} \ {name} : Ran(e)
           THEN "face" ELSE "extract"
  /\ UNCHANGED <<cfg, resizer, debug, isRGBA, source, faceOut>>
  /\ UNCHANGED <<gen, op, img, det, width, height, rgbaImg, cropWidth,
                 cropHeight, realMinScale, prescalefactor, faceRects, cs, n, topCrop, result,
                 ref>>

EdgeDetectAnyOrder == Extract("edge", edgeDetect(cfg, rgbaImg, o))

SkinDetectAnyOrder == Extract("skin", skinDetect(cfg, rgbaImg, o))

SaturationDetectAnyOrder == Extract("saturation", saturationDetect(cfg, rgbaImg, o))

\* faceDetect panics when the classifier file cannot be loaded; a failed conversion of
\* the image returns before the classifier is loaded
Panics(sca, d) == sca.FaceDetectEnabled /\ ~d.err /\ ~Load(sca.FaceDetectClassifierFile)

\* a variant of FaceDetect that keeps the boxes of earlier calls, as a package-level
\* slice that is appended to and never cleared would
FaceDetectStale ==
  /\ pc = "face"
  /\ ~Panics(cfg, det)
  /\ faceRects' = faceRects \o analyseFaceRects(cfg, rgbaImg, det)
  /\ faceOut' = analyseFaceOut(cfg, debug, rgbaImg, det)
  /\ steps' = IF cfg.FaceDetectEnabled THEN Append(steps, "face") ELSE steps
  /\ pc' = "crops"
  /\ UNCHANGED <<cfg, resizer, debug, isRGBA, source>>
  /\ UNCHANGED <<gen, op, img, det, width, height, locals, result, ref>>

FaceDetect ==
  /\ pc = "face"
  /\ ~Panics(cfg, det)
  /\ faceRects' = analyseFaceRects(cfg, rgbaImg, det)
  /\ faceOut' = analyseFaceOut(cfg, debug, rgbaImg, det)
  /\ steps' = IF cfg.FaceDetectEnabled THEN Append(steps, "face") ELSE steps
  /\ pc' = "crops"
  /\ UNCHANGED <<cfg, resizer, debug, isRGBA, source>>
  /\ UNCHANGED <<gen, op, img, det, width, height, locals, result, ref>>

FaceDetectPanic ==
  /\ pc = "face"
  /\ Panics(cfg, det)
  /\ steps' = Append(steps, "face")
  /\ pc' = "panic"
  /\ result' = [NoResult EXCEPT !.err = "panic"]
  /\ faceOut' = IF debug THEN rgbaImg ELSE NoImage
  /\ UNCHANGED <<cfg, resizer, debug, isRGBA, source>>
  /\ UNCHANGED <<gen, op, img, det, width, height, locals, faceRects, ref>>

Crops ==
  /\ pc = "crops"
  /\ cs' = crops(cfg, o, cropWidth, cropHeight, realMinScale)
  /\ n' = 1
  /\ steps' = Append(steps, "crops")
  /\ pc' = "score"
  /\ UNCHANGED <<cfg, resizer, debug, isRGBA, source, faceOut>>
  /\ UNCHANGED <<gen, op, img, det, width, height, rgbaImg, cropWidth, cropHeight,
                 realMinScale, prescalefactor, o, faceRects, topCrop, result, ref>>

\* the crop size crops works with: minDimension for a dimension that is 0
cropSize(i, c) == IF c # 0 THEN c ELSE Min2(i.w, i.h)

\* crops step by step.  Its first statements, up to the start of the outer loop
CropsBegin ==
  /\ pc = "crops"
  /\ cs' = << >>
  /\ gen' = [at |-> "scale", scale |-> cfg.MaxScale, y |-> 0, x |-> 0]
  /\ steps' = Append(steps, "crops")
  /\ pc' = "generate"
  /\ UNCHANGED <<cfg, resizer, debug, isRGBA, source, faceOut>>
  /\ UNCHANGED <<op, img, det, width, height, rgbaImg, cropWidth, cropHeight,
                 realMinScale, prescalefactor, o, faceRects, n, topCrop, result, ref>>

\* a variant of CropsScale whose loop stops at realMinScale instead of after it
CropsScaleExclusive ==
  /\ pc = "generate" /\ gen.at = "scale"
  /\ IF RLeq(realMinScale, <<gen.scale, 100>>) /\ ~RLeq(<<gen.scale, 100>>, realMinScale)
     THEN /\ gen' = [gen EXCEPT !.at = "y", !.y = 0]
          /\ UNCHANGED <<pc, n>>
     ELSE /\ gen' = NoGen
          /\ pc' = "score" /\ n' = 1
  /\ UNCHANGED <<cfg, resizer, debug, isRGBA, source, faceOut>>
  /\ UNCHANGED <<op, img, det, width, height, rgbaImg, cropWidth, cropHeight,
                 realMinScale, prescalefactor, o, faceRects, cs, topCrop, result, steps, ref>>

\* the test of the outer loop, scale >= realMinScale: on to the rows of this scale, or
\* crops returns and the scoring loop of analyse starts
CropsScale ==
  /\ pc = "generate" /\ gen.at = "scale"
  /\ IF RLeq(realMinScale, <<gen.scale, 100>>)
     THEN /\ gen' = [gen EXCEPT !.at = "y", !.y = 0]
          /\ UNCHANGED <<pc, n>>
     ELSE /\ gen' = NoGen
          /\ pc' = "score" /\ n' = 1
  /\ UNCHANGED <<cfg, resizer, debug, isRGBA, source, faceOut>>
  /\ UNCHANGED <<op, img, det, width, height, rgbaImg, cropWidth, cropHeight,
                 realMinScale, prescalefactor, o, faceRects, cs, topCrop, result, steps, ref>>

\* the test of the middle loop, y + cropH*scale <= height: on to the columns of this
\* row, or scale -= ScaleStep and back to the outer loop
CropsRow ==
  /\ pc = "generate" /\ gen.at = "y"
  /\ gen' = IF 100 * gen.y + cropSize(o, cropHeight) * gen.scale <= 100 * o.h
            THEN [gen EXCEPT !.at = "x", !.x = 0]
            ELSE [gen EXCEPT !.at = "scale", !.scale = gen.scale - cfg.ScaleStep]
  /\ UNCHANGED <<cfg, resizer, debug, isRGBA, source, faceOut>>
  /\ UNCHANGED <<pc, op, img, det, width, height, rgbaImg, cropWidth,
                 cropHeight, realMinScale, prescalefactor, o, faceRects, cs, n, topCrop,
                 result, steps, ref>>

\* the test of the inner loop, x + cropW*scale <= width: a candidate is appended and
\* x += Step, or y += Step and back to the middle loop
CropsColumn ==
  /\ pc = "generate" /\ gen.at = "x"
  /\ IF 100 * gen.x + cropSize(o, cropWidth) * gen.scale <= 100 * o.w
     THEN /\ Len(cs) < MaxCandidates
          /\ cs' = Append(cs,
                [Rectangle |-> Rect(gen.x, gen.y,
                                    gen.x + chop(cropSize(o, cropWidth) * gen.scale, 100),
                                    gen.y + chop(cropSize(o, cropHeight) * gen.scale, 100)),
                 Score |-> ZeroScore])
          /\ gen' = [gen EXCEPT !.x = gen.x + cfg.Step]
     ELSE /\ cs' = cs
          /\ gen' = [gen EXCEPT !.at = "y", !.y = gen.y + cfg.Step]
  /\ UNCHANGED <<cfg, resizer, debug, isRGBA, source, faceOut>>
  /\ UNCHANGED <<pc, op, img, det, width, height, rgbaImg, cropWidth,
                 cropHeight, realMinScale, prescalefactor, o, faceRects, n, topCrop, result,
                 steps, ref>>

\* a variant of ScoreCrop that marks the scored candidate on the feature buffer, as the
\* debug drawing does with the selected one: red outside the candidate, green inside
ScoreCropDrawing ==
  /\ pc = "score"
  /\ n <= Len(cs)
  /\ cs' = [cs EXCEPT ![n].Score = score(cfg, o, cs[n].Rectangle, faceRects)]
  /\ o' = [o EXCEPT !.pix = [k \in 1..(o.w * o.h) |->
            IF importance(cfg, cs[n].Rectangle, (k - 1) % o.w, (k - 1) \div o.w) < 0
            THEN RGB(Min2(o.pix[k].R + 32, 255), o.pix[k].G, o.pix[k].B)
            ELSE RGB(o.pix[k].R, Min2(o.pix[k].G + 32, 255), o.pix[k].B)]]
  /\ n' = n + 1
  /\ steps' = Append(steps, "score")
  /\ UNCHANGED <<cfg, resizer, debug, isRGBA, source, faceOut>>
  /\ UNCHANGED <<gen, pc, op, img, det, width, height, rgbaImg, cropWidth,
                 cropHeight, realMinScale, prescalefactor, faceRects, topCrop, result, ref>>

\* one pass of analyse's scoring loop
ScoreCrop ==
  /\ pc = "score"
  /\ n <= Len(cs)
  /\ cs' = [cs EXCEPT ![n].Score = score(cfg, o, cs[n].Rectangle, faceRects)]
  /\ n' = n + 1
  /\ steps' = Append(steps, "score")
  /\ UNCHANGED <<cfg, resizer, debug, isRGBA, source, faceOut>>
  /\ UNCHANGED <<gen, pc, op, img, det, width, height, rgbaImg, cropWidth,
                 cropHeight, realMinScale, prescalefactor, o, faceRects, topCrop, result, ref>>

\* a variant of BestCropReturn whose debug drawing is done on the analysed picture
\* instead of the feature buffer analyse returned
BestCropReturnOnPicture ==
  /\ pc = "score" /\ n > Len(cs) /\ op = "FindBestCrop"
  /\ topCrop' = findTopCrop(cs)
  /\ rgbaImg' = IF debug THEN drawDebugCrop(cfg, findTopCrop(cs).Rectangle, rgbaImg) ELSE rgbaImg
  /\ source' = IF Aliased THEN rgbaImg' ELSE source
  /\ result' = [NoResult EXCEPT !.rect = Canon(rescale(cfg, findTopCrop(cs).Rectangle, prescalefactor)),
                                !.err = "nil"]
  /\ steps' = Append(steps, "select")
  /\ pc' = "done"
  /\ UNCHANGED <<cfg, resizer, debug, isRGBA, faceOut>>
  /\ UNCHANGED <<gen, op, img, det, width, height, cropWidth, cropHeight,
                 realMinScale, prescalefactor, o, faceRects, cs, n, ref>>

\* FindBestCrop, from findTopCrop to its return; in debug mode the selected crop is drawn
\* on the feature buffer
BestCropReturn ==
  /\ pc = "score" /\ n > Len(cs) /\ op = "FindBestCrop"
  /\ topCrop' = findTopCrop(cs)
  /\ o' = IF debug THEN drawDebugCrop(cfg, findTopCrop(cs).Rectangle, o) ELSE o
  /\ result' = [NoResult EXCEPT !.rect = Canon(rescale(cfg, findTopCrop(cs).Rectangle, prescalefactor)),
                                !.err = "nil"]
  /\ steps' = Append(steps, "select")
  /\ pc' = "done"
  /\ UNCHANGED <<cfg, resizer, debug, isRGBA, source, faceOut>>
  /\ UNCHANGED <<gen, op, img, det, width, height, rgbaImg, cropWidth, cropHeight,
                 realMinScale, prescalefactor, faceRects, cs, n, ref>>

\* a variant of rescaleAll with the divisors of the legacy FindAllCrops: Min.X by 2 and
\* Min.Y by 3, Max by prescalefactor
rescaleAllLegacy(sca, allCrops, pf) ==
  [k \in 1..Len(allCrops) |->
     IF sca.Prescale
     THEN [allCrops[k] EXCEPT
             !.Rectangle = [Min |-> Pt(chop(allCrops[k].Rectangle.Min.X, 2),
                                       chop(allCrops[k].Rectangle.Min.Y, 3)),
                            Max |-> Pt(chop(allCrops[k].Rectangle.Max.X * pf[2], pf[1]),
                                       chop(allCrops[k].Rectangle.Max.Y * pf[2], pf[1]))]]
     ELSE allCrops[k]]

\* FindAllCrops, from its rescaling loop to its return
rescaleAll(sca, allCrops, pf) ==
  [k \in 1..Len(allCrops) |->
     IF sca.Prescale
     THEN [allCrops[k] EXCEPT
             !.Rectangle = [Min |-> Pt(chop(allCrops[k].Rectangle.Min.X * pf[2], pf[1]),
                                       chop(allCrops[k].Rectangle.Min.Y * pf[2], pf[1])),
                            Max |-> Pt(chop(allCrops[k].Rectangle.Max.X * pf[2], pf[1]),
                                       chop(allCrops[k].Rectangle.Max.Y * pf[2], pf[1]))]]
     ELSE allCrops[k]]

AllCropsReturn ==
  /\ pc = "score" /\ n > Len(cs) /\ op = "FindAllCrops"
  /\ result' = [NoResult EXCEPT !.crops = rescaleAll(cfg, cs, prescalefactor), !.err = "nil"]
  /\ pc' = "done"
  /\ UNCHANGED <<cfg, resizer, debug, isRGBA, source, faceOut>>
  /\ UNCHANGED <<gen, op, img, det, width, height, locals, faceRects, steps, ref>>

\* FindFaces: the face locator on the caller's image
FindFaces(c) ==
  /\ pc = "idle"
  /\ cfg.FaceDetectEnabled
  /\ op' = "FindFaces" /\ img' = c.img /\ det' = c.det /\ width' = 0 /\ height' = 0
  /\ isRGBA' = c.rgba /\ source' = c.img
  /\ steps' = <<"face">>
  /\ IF Panics(cfg, c.det)
     THEN /\ pc' = "panic"
          /\ result' = [NoResult EXCEPT !.err = "panic"]
     ELSE /\ pc' = "done"
          /\ result' = [NoResult EXCEPT !.faces = faceDetect(cfg, c.img, c.det), !.err = "nil"]
  /\ UNCHANGED <<cfg, resizer, debug, faceOut, gen, locals, faceRects, ref>>

\* the call is over: its locals are gone (faceRects is assigned afresh by the next
\* FaceDetect before anything reads it).  With track, the first call to return is
\* remembered in ref, and whether another call has returned since
Return(track) ==
  /\ pc \in {"done", "panic"}
  /\ pc' = "idle" /\ op' = "none"
  /\ img' = NoImage /\ det' = NoDet /\ width' = 0 /\ height' = 0
  /\ rgbaImg' = NoImage /\ cropWidth' = 0 /\ cropHeight' = 0
  /\ realMinScale' = <<0, 1>> /\ prescalefactor' = <<1, 1>>
  /\ o' = NoImage /\ cs' = << >> /\ n' = 0 /\ topCrop' = ZeroCrop
  /\ result' = NoResult /\ steps' = << >>
  /\ ref' = IF ~track THEN ref
            ELSE IF ref = NoRef
            THEN [op |-> op, img |-> img, det |-> det, w |-> width, h |-> height,
                  result |-> result, between |-> FALSE]
            ELSE [ref EXCEPT !.between = TRUE]
  /\ isRGBA' = FALSE /\ source' = NoImage /\ faceOut' = NoImage
  /\ UNCHANGED <<cfg, resizer, debug, gen, faceRects>>

\* the steps of a call that has been entered
Analyse ==
  \/ Preprocess \/ EdgeDetect \/ SkinDetect \/ SaturationDetect
  \/ FaceDetect \/ FaceDetectPanic
  \/ Crops \/ ScoreCrop \/ BestCropReturn \/ AllCropsReturn

Next ==
  \/ pc = "idle" /\ \E c \in Calls(cfg) : FindBestCrop(c) \/ FindAllCrops(c) \/ FindFaces(c)
  \/ Analyse
  \/ Return(FALSE)

\* the same analyzer, remembering its first call
NextRepeat ==
  \/ pc = "idle" /\ \E c \in RepeatCalls(cfg) : FindBestCrop(c) \/ FindAllCrops(c) \/ FindFaces(c)
  \/ Analyse
  \/ Return(TRUE)

\* the steps of a call whose candidates are generated loop pass by loop pass
AnalyseStepwise ==
  \/ Preprocess \/ EdgeDetect \/ SkinDetect \/ SaturationDetect
  \/ FaceDetect \/ FaceDetectPanic
  \/ CropsBegin \/ CropsScale \/ CropsRow \/ CropsColumn
  \/ ScoreCrop \/ BestCropReturn \/ AllCropsReturn

NextStepwise ==
  \/ pc = "idle" /\ \E c \in GeneratorCalls(cfg) : FindBestCrop(c) \/ FindAllCrops(c)
  \/ AnalyseStepwise
  \/ Return(FALSE)

\* the steps of a call whose extractors run one after the other in any order
AnalyseAnyOrder ==
  \/ Preprocess
  \/ NewBuffer \/ EdgeDetectAnyOrder \/ SkinDetectAnyOrder \/ SaturationDetectAnyOrder
  \/ FaceDetect \/ FaceDetectPanic
  \/ Crops \/ ScoreCrop \/ BestCropReturn \/ AllCropsReturn

NextAnyOrder ==
  \/ pc = "idle" /\ \E c \in Calls(cfg) : FindBestCrop(c) \/ FindAllCrops(c)
  \/ AnalyseAnyOrder
  \/ Return(FALSE)

\* calls on images of either type
NextBuffers ==
  \/ pc = "idle" /\ \E c \in BufferCalls(cfg) : FindBestCrop(c) \/ FindAllCrops(c)
  \/ Analyse
  \/ Return(FALSE)

\* calls on pictures with features and faces
NextScore ==
  \/ pc = "idle" /\ \E c \in ScoreCalls(cfg) : FindBestCrop(c) \/ FindAllCrops(c)
  \/ Analyse
  \/ Return(FALSE)

\* calls on pictures of the palette
NextExtractors ==
  \/ pc = "idle" /\ \E c \in ExtractorCalls(cfg) : FindBestCrop(c) \/ FindAllCrops(c)
  \/ Analyse
  \/ Return(FALSE)

Init == InitWith(Configs)

\* every config of the model
Spec == Init /\ [][Next]_vars

\* the presets the package ships
SpecPresets == InitWith({DefaultConfig, FaceDetectConfig, LoadedFaceConfig}) /\ [][Next]_vars

\* the presets with face detection, and their scaled version
SpecFace == InitWith({FaceDetectConfig, LoadedFaceConfig, SmallFaceConfig}) /\ [][Next]_vars

\* the config that analyses every pixel of the picture as it is
SpecPlain == InitWith({FaceDetectConfig, PlainConfig}) /\ [][Next]_vars

\* the configs that prescale the picture
SpecPrescale == InitWith({FaceDetectConfig, SmallConfig}) /\ [][Next]_vars

\* calls one after the other on one analyzer
SpecRepeat == InitWith(RepeatConfigs) /\ [][NextRepeat]_vars

\* the candidate generator loop pass by loop pass
SpecGenerator ==
  InitWith({FaceDetectConfig, PlainConfig, SmallConfig}) /\ [][NextStepwise]_vars

\* the extractors in any order
SpecAnyOrder == InitWith({FaceDetectConfig, PlainConfig}) /\ [][NextAnyOrder]_vars

\* the same, also with a Config whose Step is 0
SpecZeroStep ==
  InitWith({FaceDetectConfig, PlainConfig, ZeroStepConfig}) /\ [][NextStepwise]_vars

\* analyzers with and without debug mode, on images of either type
SpecBuffers ==
  InitLogger({DefaultConfig, FaceDetectConfig, PlainConfig, SmallConfig, SmallFaceConfig},
             BOOLEAN)
    /\ [][NextBuffers]_vars

\* face detection on pictures with features, prescaled or not
SpecScore ==
  InitWith({FaceDetectConfig, SmallFaceConfig, PrescaleFaceConfig}) /\ [][NextScore]_vars

\* the extractors on the colours of the palette
SpecExtractors == InitWith({FaceDetectConfig, PlainConfig}) /\ [][NextExtractors]_vars

(***************************************************************************)
(* The claims                                                              *)
(***************************************************************************)
\* a call of FindBestCrop or FindAllCrops that has come to its end
Ended == pc \in {"done", "panic"} /\ op \in {"FindBestCrop", "FindAllCrops"}
BothZero == width = 0 /\ height = 0

\* C1: FindBestCrop and FindAllCrops end with ErrInvalidDimensions exactly when the
\* target width and height are both 0; the call then returns the empty rectangle and
\* the empty list, and nothing has run: no resize, no extractor, no face detection,
\* no candidate, no score
C1_InvalidDimensions ==
  Ended =>
    /\ (result.err = "ErrInvalidDimensions") <=> BothZero
    /\ BothZero =>
         /\ pc = "done" /\ result.rect = ZR /\ result.crops = << >>
         /\ steps = << >>
         /\ rgbaImg = NoImage /\ o = NoImage /\ cs = << >> /\ n = 0

\* C1: a FindAllCrops call with target 0x0 on a picture has ended with the error
C1_Witness ==
  /\ pc = "done" /\ op = "FindAllCrops" /\ BothZero /\ img # NoImage
  /\ result.err = "ErrInvalidDimensions"

\* FindBestCrop has returned a rectangle
Best == pc = "done" /\ op = "FindBestCrop" /\ result.err = "nil"

\* C2: for every target with a nonzero dimension the rectangle FindBestCrop returns
\* is canonical and lies inside the bounds of the source image, prescaled or not
C2_InsideSource ==
  Best =>
    /\ result.rect.Min.X <= result.rect.Max.X /\ result.rect.Min.Y <= result.rect.Max.Y
    /\ 0 <= result.rect.Min.X /\ 0 <= result.rect.Min.Y
    /\ result.rect.Max.X <= img.w /\ result.rect.Max.Y <= img.h

\* the first call, remembered in ref, was entry point name on the inputs of this call
SameInputs(name) ==
  /\ ref # NoRef /\ ref.op = name
  /\ ref.img = img /\ ref.det = det /\ ref.w = width /\ ref.h = height

\* C3: the rectangle FindBestCrop returns is the rectangle of an element of the list
\* FindAllCrops returned for the same inputs, and no element of that list has a
\* greater Total than that element
C3_BestAmongAll ==
  (Best /\ SameInputs("FindAllCrops") /\ ref.result.err = "nil") =>
    \E k \in 1..Len(ref.result.crops) :
      /\ ref.result.crops[k].Rectangle = result.rect
      /\ \A j \in 1..Len(ref.result.crops) :
           ~Gt(ref.result.crops[j].Score.Total, ref.result.crops[k].Score.Total)

\* C4: a FindBestCrop call on the image, target and Config of an earlier FindBestCrop
\* call ends as that call ended, with the same rectangle, whatever ran in between
C4_Idempotent ==
  (pc \in {"done", "panic"} /\ op = "FindBestCrop" /\ SameInputs("FindBestCrop")) =>
    result = ref.result

\* C4: the first call is repeated after another call; it returned a candidate, and the
\* picture of the call has no face while the analyzer detects faces
C4_Witness ==
  /\ Best /\ SameInputs("FindBestCrop") /\ ref.between
  /\ result.rect # ZR /\ cfg.FaceDetectEnabled /\ faceRects = << >>

\* the pixels of a rectangle
PixelsOf(r) == (r.Min.X..(r.Max.X - 1)) \X (r.Min.Y..(r.Max.Y - 1))
\* the pixels of the boxes that lie entirely within rectangle c, box by box
ContainedArea(boxes, c) ==
  SeqSum([k \in 1..Len(boxes) |->
            IF PixelsOf(boxes[k]) \subseteq PixelsOf(c)
            THEN Cardinality(PixelsOf(boxes[k])) ELSE 0])
\* the candidates analyse has scored so far
ScoredSoFar == IF pc \in {"score", "done"} THEN 1..(n - 1) ELSE {}

\* C5: with face detection enabled, the Face score of a scored candidate is the sum,
\* over the face boxes that lie entirely within the candidate, of box area over
\* candidate area; a box that is only partly within the candidate adds nothing
C5_FaceScore ==
  cfg.FaceDetectEnabled =>
    \A k \in ScoredSoFar :
      cs[k].Score.Face.num * Cardinality(PixelsOf(cs[k].Rectangle))
        = cs[k].Score.Face.den * ContainedArea(faceRects, cs[k].Rectangle)

\* C5: one box; it covers half of a scored candidate, whose Face is 1/2, and is partly
\* within another scored candidate, whose Face is 0
C5_Witness ==
  /\ cfg.FaceDetectEnabled /\ Len(faceRects) = 1
  /\ \E k \in ScoredSoFar :
       /\ PixelsOf(faceRects[1]) \subseteq PixelsOf(cs[k].Rectangle)
       /\ 2 * Cardinality(PixelsOf(faceRects[1])) = Cardinality(PixelsOf(cs[k].Rectangle))
       /\ 2 * cs[k].Score.Face.num = cs[k].Score.Face.den
  /\ \E j \in ScoredSoFar :
       /\ PixelsOf(faceRects[1]) \cap PixelsOf(cs[j].Rectangle) # {}
       /\ ~(PixelsOf(faceRects[1]) \subseteq PixelsOf(cs[j].Rectangle))
       /\ cs[j].Score.Face.num = 0

\* the call analyses the 4x4 uniform gray picture for target 2x2 with DefaultConfig
Gray4x4 ==
  /\ cfg = DefaultConfig /\ img = Picture(4, 4, Gray, Gray, ZR)
  /\ width = 2 /\ height = 2

\* C6: for the 4x4 uniform gray picture, target 2x2 and DefaultConfig, all candidates
\* get the same Total, the first candidate is (0,0)-(4,4), and FindBestCrop returns it
C6_UniformGray ==
  Gray4x4 =>
    /\ \A j, k \in ScoredSoFar : cs[j].Score.Total = cs[k].Score.Total
    /\ pc \in {"score", "done"} => cs[1].Rectangle = Rect(0, 0, 4, 4)
    /\ Best => result.rect = Rect(0, 0, 4, 4)

\* C6: FindBestCrop has returned for that call, with more than one candidate scored
C6_Witness == Gray4x4 /\ Best /\ Len(cs) > 1 /\ ScoredSoFar = 1..Len(cs)

\* the green pixels of a picture
GreenPixels(i) == {p \in (0..(i.w - 1)) \X (0..(i.h - 1)) : RGBAAt(i, p[1], p[2]) = Green}
\* the picture is black but for a green square that is not in its middle
OffCenterSquare(i) ==
  /\ GreenPixels(i) # {}
  /\ \A p \in (0..(i.w - 1)) \X (0..(i.h - 1)) : RGBAAt(i, p[1], p[2]) \in {Black, Green}
  /\ \E p \in GreenPixels(i) : <<i.w - 1 - p[1], i.h - 1 - p[2]>> \notin GreenPixels(i)

\* C7: on a picture whose only content is a green square off its middle, with a target
\* smaller than the picture and a Config of positive DetailWeight, the rectangle
\* FindBestCrop returns, when it is one of the candidates, contains the whole square
C7_ContainsSquare ==
  (/\ Best /\ topCrop # ZeroCrop /\ cfg.DetailWeight > 0 /\ OffCenterSquare(img)
   /\ 0 < width /\ width < img.w /\ 0 < height /\ height < img.h) =>
    GreenPixels(img) \subseteq PixelsOf(result.rect)

\* the rectangles a call has returned: FindBestCrop's candidate, FindAllCrops' list
Returned ==
  IF pc = "done" /\ result.err = "nil" /\ op = "FindBestCrop" /\ topCrop # ZeroCrop
    THEN {result.rect}
  ELSE IF pc = "done" /\ result.err = "nil" /\ op = "FindAllCrops"
    THEN {result.crops[k].Rectangle : k \in 1..Len(result.crops)}
  ELSE {}

\* C8: every rectangle with pixels that FindBestCrop or FindAllCrops returns for a
\* target that fits in the source is at least as wide as a nonzero target width and at
\* least as high as a nonzero target height
C8_CoversTarget ==
  (width <= img.w /\ height <= img.h) =>
    \A r \in Returned : ~Empty(r) => /\ width > 0 => Dx(r) >= width
                                     /\ height > 0 => Dy(r) >= height

\* q is c divided by the prescale factor pf, truncated toward zero (c >= 0)
DividedBy(q, c, pf) == q * pf[1] <= c * pf[2] /\ c * pf[2] < (q + 1) * pf[1]

\* C9: FindAllCrops returns every candidate with its four coordinates divided by the
\* one prescalefactor and truncated toward zero, which is what FindBestCrop does to
\* the rectangle it returns; the scores are returned as computed
C9_SameRescale ==
  (pc = "done" /\ op = "FindAllCrops" /\ result.err = "nil") =>
    /\ Len(result.crops) = Len(cs)
    /\ \A k \in 1..Len(cs) :
         /\ result.crops[k].Score = cs[k].Score
         /\ result.crops[k].Rectangle = rescale(cfg, cs[k].Rectangle, prescalefactor)
         /\ DividedBy(result.crops[k].Rectangle.Min.X, cs[k].Rectangle.Min.X, prescalefactor)
         /\ DividedBy(result.crops[k].Rectangle.Min.Y, cs[k].Rectangle.Min.Y, prescalefactor)
         /\ DividedBy(result.crops[k].Rectangle.Max.X, cs[k].Rectangle.Max.X, prescalefactor)
         /\ DividedBy(result.crops[k].Rectangle.Max.Y, cs[k].Rectangle.Max.Y, prescalefactor)

\* C9: FindAllCrops has returned candidates of a prescaled picture, one of them with a
\* nonzero Min corner and a coordinate that the division truncates
C9_Witness ==
  /\ pc = "done" /\ op = "FindAllCrops" /\ result.err = "nil"
  /\ prescalefactor # <<1, 1>>
  /\ \E k \in 1..Len(cs) :
       /\ cs[k].Rectangle.Min.X > 0 /\ cs[k].Rectangle.Min.Y > 0
       /\ (cs[k].Rectangle.Max.X * prescalefactor[2]) % prescalefactor[1] # 0

\* the boxes kept out of those found are all larger than 5% of picture i, and no found
\* box of 5% or less is among them
KeptAbove5(kept, found, i) ==
  /\ \A k \in 1..Len(kept) :
       /\ 100 * Cardinality(PixelsOf(kept[k])) > 5 * (i.w * i.h)
       /\ \E j \in 1..Len(found) : found[j] = kept[k]
  /\ \A j \in 1..Len(found) :
       100 * Cardinality(PixelsOf(found[j])) <= 5 * (i.w * i.h)
         => \A k \in 1..Len(kept) : kept[k] # found[j]

\* the face locator has run in this analysis call
FaceLocated == \E j \in 1..Len(steps) : steps[j] = "face"

Analysing == op \in {"FindBestCrop", "FindAllCrops"} /\ ~BothZero
\* faces are to be detected and the classifier file of the analyzer cannot be loaded
Unloadable == cfg.FaceDetectEnabled /\ ~Load(cfg.FaceDetectClassifierFile)

\* C11: with face detection enabled and a classifier file that cannot be loaded, an
\* analysis call never gets past the face locator: it generates and scores no
\* candidate and returns no result, it ends in the panic
C11_ClassifierAbort ==
  (Analysing /\ Unloadable) =>
    /\ pc \notin {"crops", "score", "done"}
    /\ cs = << >> /\ result.rect = ZR /\ result.crops = << >>

\* C12: with face detection enabled and an image the detector cannot convert, the call
\* does not panic, the scorer gets no face box, the Face of every scored candidate is
\* 0, and the call returns its result with a nil error
C12_DetectorFailure ==
  (Analysing /\ cfg.FaceDetectEnabled /\ det.err) =>
    /\ pc # "panic"
    /\ pc \in {"crops", "score", "done"} => faceRects = << >>
    /\ \A k \in ScoredSoFar : cs[k].Score.Face.num = 0
    /\ pc = "done" => /\ result.err = "nil"
                      /\ op = "FindAllCrops" => Len(result.crops) = Len(cs)

\* C12: FindAllCrops has returned several scored candidates for an image the detector
\* could not convert
C12_Witness ==
  /\ pc = "done" /\ op = "FindAllCrops" /\ cfg.FaceDetectEnabled /\ det.err
  /\ FaceLocated /\ result.err = "nil" /\ Len(result.crops) > 1
  /\ \A k \in 1..Len(result.crops) : result.crops[k].Score.Face.num = 0

\* the config with an EdgeWeight of twice the magnitude, everything else the same
Heavier(c) == [c EXCEPT !.EdgeWeight = 2 * c.EdgeWeight]
\* rectangle r touches the border of picture i
TouchesBorder(r, i) == r.Min.X = 0 \/ r.Min.Y = 0 \/ r.Max.X = i.w \/ r.Max.Y = i.h
\* rectangle r lies in the middle of picture i, away from its border
Centered(r, i) ==
  /\ ~TouchesBorder(r, i)
  /\ r.Min.X = i.w - r.Max.X /\ r.Min.Y = i.h - r.Max.Y
\* the Total of rectangle r on the feature buffer of this call, had the config been c
TotalWith(c, r) == score(c, o, r, faceRects).Total

\* C13: for a candidate that touches the border of the analysed picture and a centered
\* candidate of the same size, Total(border) - Total(centered) with an EdgeWeight of
\* twice the magnitude is at most what it is with the EdgeWeight of the config, the
\* picture and every other Config value being the same
C13_EdgeWeightMonotone ==
  (pc = "done" /\ op = "FindAllCrops" /\ result.err = "nil" /\ cfg.EdgeWeight < 0) =>
    \A j, k \in 1..Len(cs) :
      (/\ TouchesBorder(cs[j].Rectangle, o) /\ Centered(cs[k].Rectangle, o)
       /\ Dx(cs[j].Rectangle) = Dx(cs[k].Rectangle)
       /\ Dy(cs[j].Rectangle) = Dy(cs[k].Rectangle)) =>
        TotalWith(Heavier(cfg), cs[j].Rectangle) - TotalWith(Heavier(cfg), cs[k].Rectangle)
          <= cs[j].Score.Total - cs[k].Score.Total

\* every candidate has a Total that is a number
FiniteTotals == \A k \in 1..Len(cs) : cs[k].Score.Total \notin {PosInf, NegInf, NaN}

\* C14: for a non-empty list of scored candidates findTopCrop returns the candidate at
\* the smallest index whose Total is the maximum of the list: no candidate has a
\* greater Total, and every candidate before it has a smaller one
C14_FirstMaximum ==
  (pc = "done" /\ op = "FindBestCrop" /\ result.err = "nil" /\ cs # << >> /\ FiniteTotals) =>
    \E k \in 1..Len(cs) :
      /\ topCrop = cs[k]
      /\ \A j \in 1..Len(cs) : cs[j].Score.Total <= cs[k].Score.Total
      /\ \A j \in 1..(k - 1) : cs[j].Score.Total < cs[k].Score.Total

\* the (scale, y, x) of the sweep: scale from MaxScale down by ScaleStep while it is at
\* least realMinScale, y and x the multiples of Step at which the crop fits
Sweep ==
  {t \in [s : 0..cfg.MaxScale, y : 0..o.h, x : 0..o.w] :
     /\ (cfg.MaxScale - t.s) % cfg.ScaleStep = 0 /\ RLeq(realMinScale, <<t.s, 100>>)
     /\ t.y % cfg.Step = 0 /\ 100 * t.y + cropSize(o, cropHeight) * t.s <= 100 * o.h
     /\ t.x % cfg.Step = 0 /\ 100 * t.x + cropSize(o, cropWidth) * t.s <= 100 * o.w}
\* u comes before t: at a larger scale, or at that scale further up, or in that row
\* further left
Before(u, t) ==
  \/ u.s > t.s
  \/ u.s = t.s /\ u.y < t.y
  \/ u.s = t.s /\ u.y = t.y /\ u.x < t.x
\* the place of t in the list
Rank(t) == 1 + Cardinality({u \in Sweep : Before(u, t)})
\* the generator has returned in this analysis call
Generated == Analysing /\ pc \in {"score", "done"}

\* C15: the list of the candidate generator has one rectangle per (scale, y, x) of the
\* sweep, [x, y, x + floor(cropWidth*scale), y + floor(cropHeight*scale)), and lists
\* them by scale descending, then y ascending, then x ascending
C15_SweepOrder ==
  Generated =>
    /\ Len(cs) = Cardinality(Sweep)
    /\ \A t \in Sweep :
         cs[Rank(t)].Rectangle =
           [Min |-> Pt(t.x, t.y),
            Max |-> Pt(t.x + (cropSize(o, cropWidth) * t.s) \div 100,
                       t.y + (cropSize(o, cropHeight) * t.s) \div 100)]

\* C15: the generator has returned a list with two scales, and at the smaller scale
\* two rows of two columns
C15_Witness ==
  /\ Generated
  /\ \E t, u \in Sweep : t.s < u.s /\ t.y > 0 /\ t.x > 0

\* C16: every pass of the inner loop of the generator increases x, every pass of the
\* middle loop increases y and every pass of the outer loop decreases scale, so the
\* generator emits only finitely many candidates
C16_Terminates ==
  [][/\ (gen.at = "x" /\ gen'.at = "x") => gen'.x > gen.x
     /\ (gen.at = "x" /\ gen'.at = "y") => gen'.y > gen.y
     /\ (gen.at = "y" /\ gen'.at = "scale") => gen'.scale < gen.scale]_vars

\* exactly one dimension of the target is 0
OneZero == (width = 0) # (height = 0)

\* C17: when exactly one target dimension is 0, the candidates have, in that dimension,
\* the size of min(imageWidth, imageHeight) of the analysed picture at one of the
\* scales, and every candidate is square
C17_SquareDefault ==
  (Generated /\ OneZero) =>
    \A k \in 1..Len(cs) :
      /\ \E sc \in 0..cfg.MaxScale :
           IF width = 0 THEN Dx(cs[k].Rectangle) = (Min2(o.w, o.h) * sc) \div 100
                        ELSE Dy(cs[k].Rectangle) = (Min2(o.w, o.h) * sc) \div 100
      /\ Dx(cs[k].Rectangle) = Dy(cs[k].Rectangle)

\* the column and the row of pixel k of picture i
Col(i, k) == (k - 1) % i.w
Row(i, k) == (k - 1) \div i.w

FeatureBuffer(sca, i) ==
  [w |-> i.w, h |-> i.h,
   pix |-> [k \in 1..(i.w * i.h) |->
              RGB(skinAt(sca, i.pix[k]), edgeAt(i, Col(i, k), Row(i, k)),
                  saturationAt(sca, i.pix[k]))]]

\* C19: once the three extractors have run, in whatever order, the buffer holds the
\* skin, edge and saturation value of every pixel
C19_OrderIndependent ==
  (Analysing /\ Ran("edge") /\ Ran("skin") /\ Ran("saturation")) =>
    o = FeatureBuffer(cfg, rgbaImg)

\* the passes of the scoring loop so far
Scored == {j \in 1..Len(steps) : steps[j] = "score"}
\* stage a has run, and before place j of the stages of the call
RanBefore(a, j) == \E i \in 1..(j - 1) : steps[i] = a
\* the stages of the call so far are in sequence: the three extractors and the
\* generator before any score, the buffer complete while candidates are scored, and
\* the selection last, after a score for every candidate
StagesInSequence ==
  /\ \A j \in Scored :
       /\ RanBefore("edge", j) /\ RanBefore("skin", j) /\ RanBefore("saturation", j)
       /\ RanBefore("crops", j)
  /\ pc = "score" => o = FeatureBuffer(cfg, rgbaImg)
  /\ \A j \in 1..Len(steps) :
       steps[j] = "select" => j = Len(steps) /\ Cardinality(Scored) = Len(cs)

C21_SourceUnchanged ==
  op \in {"FindBestCrop", "FindAllCrops"} =>
    /\ source = img
    /\ Aliased => rgbaImg = img

\* C21: FindBestCrop has returned in debug mode with face detection for an image
\* analysed in the caller's buffer: the face boxes were drawn on the copy and the
\* selected crop on the feature buffer
C21_Witness ==
  /\ pc = "done" /\ op = "FindBestCrop" /\ result.err = "nil"
  /\ debug /\ cfg.FaceDetectEnabled /\ ~cfg.Prescale /\ Aliased
  /\ faceRects # << >> /\ faceOut # NoImage /\ faceOut # rgbaImg
  /\ topCrop # ZeroCrop /\ o # FeatureBuffer(cfg, rgbaImg)

\* the weighted sum of the accumulators of score sc, in units of 1/(100*U)
Weighted(sc) ==
  (sc.Detail \div 255) * cfg.DetailWeight + (sc.Skin \div 255) * cfg.SkinWeight
    + (sc.Saturation \div 255) * cfg.SaturationWeight
\* Face of score sc, in units of 1/U
FaceOf(sc) == (U * sc.Face.num) \div sc.Face.den
\* the area of a rectangle, in pixels
Area(r) == Cardinality(PixelsOf(r))

\* C22: for every scored candidate, Total less Face is the weighted sum of Detail, Skin
\* and Saturation divided by the area of the candidate rectangle as the scorer got it,
\* in the coordinates of the analysed picture: Face is added after the division
C22_TotalFormula ==
  \A k \in ScoredSoFar :
    IF Area(cs[k].Rectangle) > 0
    THEN /\ cs[k].Score.Total \notin {NaN, PosInf, NegInf}
         /\ (cs[k].Score.Total - FaceOf(cs[k].Score)) * 100 * Area(cs[k].Rectangle)
              <= Weighted(cs[k].Score)
         /\ Weighted(cs[k].Score)
              < (cs[k].Score.Total - FaceOf(cs[k].Score) + 1) * 100 * Area(cs[k].Rectangle)
    ELSE cs[k].Score.Total \in {NaN, PosInf, NegInf}

\* C22: a scored candidate of a prescaled picture has features and a face, and an area
\* that is not the area of the rectangle returned for it
C22_Witness ==
  /\ pc = "done" /\ op = "FindAllCrops" /\ result.err = "nil"
  /\ prescalefactor # <<1, 1>>
  /\ \E k \in 1..Len(cs) :
       /\ Weighted(cs[k].Score) # 0 /\ FaceOf(cs[k].Score) > 0
       /\ Area(cs[k].Rectangle) > 1
       /\ Area(result.crops[k].Rectangle) # Area(cs[k].Rectangle)

\* the sampled pixels of the feature buffer, and those of them outside rectangle r
Sampled == {SamplePoints(cfg, o)[j] : j \in 1..Len(SamplePoints(cfg, o))}
Outside(r) == Sampled \ {Pt(q[1], q[2]) : q \in PixelsOf(r)}
\* what the sampled pixel p adds to the accumulators of the candidate with rectangle r
DetailOf(r, p) == RGBAAt(o, p.X, p.Y).G * importance(cfg, r, p.X, p.Y)
SkinOf(r, p) ==
  (((RGBAAt(o, p.X, p.Y).R * (100 * RGBAAt(o, p.X, p.Y).G + 255 * cfg.SkinBias)) \div 255)
     * importance(cfg, r, p.X, p.Y)) \div 100
SaturationOf(r, p) ==
  (((RGBAAt(o, p.X, p.Y).B * (100 * RGBAAt(o, p.X, p.Y).G + 255 * cfg.SaturationBias)) \div 255)
     * importance(cfg, r, p.X, p.Y)) \div 100
\* the sum of the values of function f over a set of pixels
RECURSIVE SumOver(_, _)
SumOver(ps, f) ==
  IF ps = {} THEN 0
  ELSE LET p == CHOOSE q \in ps : TRUE IN f[p] + SumOver(ps \ {p}, f)
\* the sampled pixels inside rectangle r
Inside(r) == Sampled \ Outside(r)
\* what the sampled pixels inside rectangle r add to the accumulators
InsideDetail(r) == SumOver(Inside(r), [p \in Inside(r) |-> DetailOf(r, p)])
InsideSkin(r) == SumOver(Inside(r), [p \in Inside(r) |-> SkinOf(r, p)])
InsideSaturation(r) == SumOver(Inside(r), [p \in Inside(r) |-> SaturationOf(r, p)])

\* the candidate the scoring loop has just scored
JustScored == IF pc = "score" /\ n > 1 THEN {n - 1} ELSE {}

\* C23: for a candidate, as soon as it is scored, every sampled pixel outside its
\* rectangle has the importance OutsideImportance, wherever it lies, and adds nothing
\* positive to Detail, Skin and Saturation: each accumulator is at most the sum over
\* the pixels inside
C23_OutsidePenalty ==
  \A k \in JustScored :
    /\ \A p \in Outside(cs[k].Rectangle) :
         /\ importance(cfg, cs[k].Rectangle, p.X, p.Y) * 100 = cfg.OutsideImportance * U
         /\ DetailOf(cs[k].Rectangle, p) <= 0
         /\ SkinOf(cs[k].Rectangle, p) <= 0
         /\ SaturationOf(cs[k].Rectangle, p) <= 0
    /\ cs[k].Score.Detail <= InsideDetail(cs[k].Rectangle)
    /\ cs[k].Score.Skin <= InsideSkin(cs[k].Rectangle)
    /\ cs[k].Score.Saturation <= InsideSaturation(cs[k].Rectangle)

\* C23: a scored candidate has a sampled pixel to its right; the candidate just scored
\* has to its left, in different rows, a pixel with a skin value and a pixel with an
\* edge value, and its Skin and Detail are below the sums over its own pixels
C23_Witness ==
  \E k \in JustScored, j \in ScoredSoFar :
    /\ \E p \in Outside(cs[j].Rectangle) : p.X >= cs[j].Rectangle.Max.X
    /\ \E p, q \in Outside(cs[k].Rectangle) :
         /\ p.X < cs[k].Rectangle.Min.X /\ q.X < cs[k].Rectangle.Min.X /\ p.Y # q.Y
         /\ SkinOf(cs[k].Rectangle, p) < 0 /\ DetailOf(cs[k].Rectangle, q) < 0
    /\ cs[k].Score.Detail < InsideDetail(cs[k].Rectangle)
    /\ cs[k].Score.Skin < InsideSkin(cs[k].Rectangle)

\* v is num/den (den > 0) clamped to [0, 255], as the 8-bit channel stores it
Rescaled(v, num, den) ==
  IF num < 0 THEN v = 0
  ELSE IF num >= 255 * den THEN v = 255
  ELSE v * den <= num /\ num < (v + 1) * den
\* the luma of pixel c over 255 is within [lo, hi], lo and hi in hundredths
LumaWithin(c, lo, hi) ==
  /\ lo * 255 * 100 <= 5126 * c.B + 7152 * c.G + 722 * c.R
  /\ 5126 * c.B + 7152 * c.G + 722 * c.R <= hi * 255 * 100
\* v is the output for a pixel of raw value rn/rd (rd > 0), threshold th in hundredths,
\* and a luma that is or is not within the band
Output(v, rn, rd, th, within) ==
  IF rn * 100 > th * rd /\ within
  THEN Rescaled(v, (rn * 100 - th * rd) * 255, rd * (100 - th))
  ELSE v = 0
\* the three extractors have run and nothing has drawn on the buffer
Extracted == pc \in {"face", "crops", "score"}

\* C24: once the extractors have run, the skin and the saturation value of every pixel
\* is (raw - threshold) * 255 / (1 - threshold) clamped to [0, 255] when raw is above the
\* threshold and the luma over 255 is within the brightness band, and 0 otherwise, a
\* skin value that is not a number counting as not above; every channel of the buffer
\* is within [0, 255], and a pixel with R = G = B has saturation value 0
C24_GateAndRescale ==
  Extracted =>
    \A k \in DOMAIN o.pix :
      /\ Output(o.pix[k].R,
                IF IsNaN(rgbaImg.pix[k]) THEN 0 ELSE skinCol(rgbaImg.pix[k]), 10000,
                cfg.SkinThreshold,
                /\ ~IsNaN(rgbaImg.pix[k])
                /\ LumaWithin(rgbaImg.pix[k], cfg.SkinBrightnessMin, cfg.SkinBrightnessMax))
      /\ Output(o.pix[k].B, saturation(rgbaImg.pix[k])[1], saturation(rgbaImg.pix[k])[2],
                cfg.SaturationThreshold,
                LumaWithin(rgbaImg.pix[k], cfg.SaturationBrightnessMin,
                           cfg.SaturationBrightnessMax))
      /\ o.pix[k].R \in 0..255 /\ o.pix[k].G \in 0..255 /\ o.pix[k].B \in 0..255
      /\ (rgbaImg.pix[k].R = rgbaImg.pix[k].G /\ rgbaImg.pix[k].G = rgbaImg.pix[k].B)
           => o.pix[k].B = 0

\* C24: the buffer of a picture has a pixel whose skin and saturation values are both
\* strictly between 0 and 255, and a pixel whose raw skin and raw saturation are above
\* the thresholds and whose values are both 0, its luma being outside the bands
C24_Witness ==
  /\ Extracted
  /\ \E j, k \in DOMAIN o.pix :
       /\ 0 < o.pix[j].R /\ o.pix[j].R < 255 /\ 0 < o.pix[j].B /\ o.pix[j].B < 255
       /\ o.pix[k].R = 0 /\ o.pix[k].B = 0
       /\ ~IsNaN(rgbaImg.pix[k]) /\ skinCol(rgbaImg.pix[k]) > cfg.SkinThreshold * 100
       /\ saturation(rgbaImg.pix[k])[1] * 100
            > cfg.SaturationThreshold * saturation(rgbaImg.pix[k])[2]

\* C25: every candidate of the generator has a width and a height of at least 1, and the
\* Total of every scored candidate is a finite number
C25_PositiveArea ==
  Generated =>
    /\ \A k \in 1..Len(cs) : Dx(cs[k].Rectangle) >= 1 /\ Dy(cs[k].Rectangle) >= 1
    /\ \A k \in ScoredSoFar : cs[k].Score.Total \notin {NaN, PosInf, NegInf}

\* C26: for an image with pixels and a target that is not 0x0, when the Totals are all
\* numbers, the generator has emitted a candidate, the selector has picked one of the
\* candidates, and FindBestCrop returns the rescaled rectangle of that candidate, which
\* is not the zero rectangle
C26_NeverZeroRect ==
  (Best /\ img.w > 0 /\ img.h > 0 /\ ~BothZero /\ FiniteTotals) =>
    /\ Len(cs) >= 1
    /\ \E k \in 1..Len(cs) :
         /\ topCrop = cs[k]
         /\ result.rect = Canon(rescale(cfg, cs[k].Rectangle, prescalefactor))
    /\ result.rect # ZR

\* C27: for a square target (width = height > 0) every rectangle that FindBestCrop or
\* FindAllCrops returns, in the coordinates of the source image, is as wide as it is high
C27_SquareResult ==
  (width = height /\ width > 0) => \A r \in Returned : Dx(r) = Dy(r)

====
